---- MODULE Spec2Model ----
(***************************************************************************)
(* A model of ticketmaster_anaylsis.py: the three operations               *)
(* find_attraction_info (memoized by functools.lru_cache),                 *)
(* get_performer_events_1 and fetch_filtered_events, each a retry loop     *)
(* around requests.get followed by the flattening of the JSON payload.     *)
(*                                                                         *)
(* One process calls the operations.  A call is a sequence of steps: the   *)
(* call step (argument checks, cache lookup) and one step per iteration of *)
(* the retry loop; the iteration that leaves the loop also runs the code   *)
(* after the loop (status check, flattening, return).  The outcome of each *)
(* requests.get is chosen by the environment.                              *)
(*                                                                         *)
(* Python values: a str on which the code computes (lower, split) is a     *)
(* sequence of one-character strings; an opaque str is a TLA+ string; a    *)
(* dict is a function on its keys; a list is a sequence; None is <<>> and  *)
(* the result of dict.get(k) is <<v>> when the key is present; a formatted *)
(* string (f-string) is the sequence of its parts; a DataFrame is the      *)
(* sequence of its rows.                                                   *)
(***************************************************************************)
EXTENDS Integers, Sequences, FiniteSets, TLC

VARIABLES
    op,           \* the operation being called ("none" before the first call)
    args,         \* the arguments of the call
    pc,           \* "idle" | "loop" | "returned" | "raised"
    attempt,      \* the loop variable of the retry loop
    retry_delay,  \* the local retry_delay
    response,     \* the local response
    requests,     \* number of requests.get calls made by the current call
    sleeps,       \* the arguments of the time.sleep calls of the current call
    history,      \* the outcomes of the requests.get calls of the current call
    result,       \* what the current call returned or raised
    cache,        \* the lru_cache of find_attraction_info, least recent first
    recency,      \* history: triples of the calls that returned, least recent first
    computed      \* history: per triple, the last envelope the body returned

vars == <<op, args, pc, attempt, retry_delay, response, requests, sleeps,
          history, result, cache, recency, computed>>

(***************************************************************************)
(* Bounds of the model.                                                    *)
(***************************************************************************)
MaxAttractions == 2
MaxEvents == 2

(***************************************************************************)
(* Python values.                                                          *)
(***************************************************************************)
None == <<>>

Some(v) == <<v>>

EmptyDict == [k \in {} |-> None]

EmptyDataFrame == <<>>

\* d.get(k): None when the key is absent
Get(d, k) == IF k \in DOMAIN d THEN Some(d[k]) ELSE None

\* d.get(k, default)
GetOr(d, k, default) == IF k \in DOMAIN d THEN d[k] ELSE default

\* str.lower() on one character of the model's alphabet
LowerChar(c) ==
    CASE c = "T" -> "t"
      [] c = "S" -> "s"
      [] c = "W" -> "w"
      [] OTHER -> c

\* str.lower()
Lower(s) == [i \in DOMAIN s |-> LowerChar(s[i])]

IsSpace(c) == c = " "

RECURSIVE SplitFrom(_, _, _, _)
\* str.split() scanning s from position i; word is the token being read
SplitFrom(s, i, word, out) ==
    IF i > Len(s)
    THEN IF word = <<>> THEN out ELSE Append(out, word)
    ELSE IF IsSpace(s[i])
         THEN SplitFrom(s, i + 1, <<>>, IF word = <<>> THEN out ELSE Append(out, word))
         ELSE SplitFrom(s, i + 1, Append(word, s[i]), out)

\* str.split(): the whitespace-separated tokens, no empty token
Split(s) == SplitFrom(s, 1, <<>>, <<>>)

\* x in list
InList(x, list) == \E i \in DOMAIN list : list[i] = x

(***************************************************************************)
(* requests: the outcome of requests.get is a raised transport error or a  *)
(* Response with a status code and a body.                                 *)
(***************************************************************************)
ConnectionError == [kind |-> "ConnectionError"]

Response(status_code, decodable, data) ==
    [kind |-> "Response", status_code |-> status_code, decodable |-> decodable, data |-> data]

\* a local not yet assigned
Unbound == [kind |-> "unbound"]

\* response = None
NoneResponse == [kind |-> "None"]

\* response.raise_for_status() raises HTTPError for a 4xx or 5xx status
RaisesForStatus(r) == r.status_code >= 400 /\ r.status_code < 600

\* bool(response): requests.Response.__bool__ is Response.ok
ResponseBool(r) == ~RaisesForStatus(r)

\* str(e) of the HTTPError raised by raise_for_status
HTTPErrorStr(r) == ToString(r.status_code) \o " Error"

(***************************************************************************)
(* What a call ends with.                                                  *)
(***************************************************************************)
NoResult == [kind |-> "none"]

\* return table, error
Return(table, error) == [kind |-> "return", table |-> table, error |-> error]

\* an exception leaves the function
Raise(exc) == [kind |-> "raise", exc |-> exc]

(***************************************************************************)
(* Function 1: find_attraction_info.                                       *)
(***************************************************************************)
max_retries_1 == 5

maxsize == 100

extract_attraction_info(attraction) ==
    "name" :> GetOr(attraction, "name", <<"N", "/", "A">>)
    @@ "ID" :> GetOr(attraction, "id", "N/A")
    @@ "Ticketmaster Upcoming Events" :>
           GetOr(GetOr(attraction, "upcomingEvents", EmptyDict), "ticketmaster", 0)
    @@ "Total Upcoming Events" :>
           GetOr(GetOr(attraction, "upcomingEvents", EmptyDict), "_total", 0)

\* all(keyword in attraction_name_keywords for keyword in identifier_keywords)
AllKeywordsIn(identifier_keywords, attraction_name_keywords) ==
    \A i \in DOMAIN identifier_keywords :
        InList(identifier_keywords[i], attraction_name_keywords)

RECURSIVE MatchLoop(_, _, _, _)
\* the loop over data['_embedded']['attractions'], from index i; the result is
\* the list matched_attractions, or the KeyError of attraction['name']
MatchLoop(attractions, identifier_keywords, i, matched_attractions) ==
    IF i > Len(attractions)
    THEN [raises |-> "none", matched |-> matched_attractions]
    ELSE IF "name" \notin DOMAIN attractions[i]
         THEN [raises |-> "KeyError", matched |-> matched_attractions]
         ELSE MatchLoop(attractions, identifier_keywords, i + 1,
                  IF AllKeywordsIn(identifier_keywords,
                                   Split(Lower(attractions[i]["name"])))
                  THEN Append(matched_attractions,
                              extract_attraction_info(attractions[i]))
                  ELSE matched_attractions)

\* lines 88-115: the code after the retry loop
find_attraction_info_process(identifier, identifier_type, r) ==
    IF r.status_code # 200
    THEN Return(EmptyDataFrame,
                <<"Error fetching data: Status code ", ToString(r.status_code)>>)
    ELSE IF ~r.decodable
    THEN Raise("JSONDecodeError")
    ELSE IF identifier_type = "name"
    THEN IF "_embedded" \in DOMAIN r.data /\ "attractions" \in DOMAIN r.data["_embedded"]
         THEN LET m == MatchLoop(r.data["_embedded"]["attractions"],
                                 Split(Lower(identifier)), 1, <<>>)
              IN  IF m.raises # "none"
                  THEN Raise(m.raises)
                  ELSE IF m.matched = <<>>
                  THEN Return(EmptyDataFrame,
                              <<"No matching attractions found with the name.">>)
                  ELSE Return(m.matched, None)
         ELSE Return(EmptyDataFrame, <<"No matching attractions found.">>)
    ELSE IF "name" \in DOMAIN r.data /\ "id" \in DOMAIN r.data
         THEN Return(<<extract_attraction_info(r.data)>>, None)
         ELSE Return(EmptyDataFrame, <<"No matching attractions found by ID.">>)

\* the check of line 58 made case-insensitive
ValidIdentifierType_AnyCase(identifier_type) ==
    identifier_type \in {"name", "id", "Name"}

\* line 58: identifier_type in ['name', 'id']
ValidIdentifierType(identifier_type) == identifier_type \in {"name", "id"}

\* line 61: not identifier
IsEmptyIdentifier(identifier) == Len(identifier) = 0

\* a key that leaves the api_key out
make_key_WithoutApiKey(identifier, identifier_type, api_key) ==
    <<identifier, identifier_type>>

\* the key lru_cache makes of the positional arguments
make_key(identifier, identifier_type, api_key) ==
    <<identifier, identifier_type, api_key>>

CacheHas(c, key) == \E i \in DOMAIN c : c[i].key = key

CacheIndex(c, key) == CHOOSE i \in DOMAIN c : c[i].key = key

\* a hit moves the entry to the most recently used end
CacheMoveToEnd(c, key) ==
    LET i == CacheIndex(c, key)
    IN  Append(SubSeq(c, 1, i - 1) \o SubSeq(c, i + 1, Len(c)), c[i])

\* a miss stores the result; a full cache first drops its least recently
\* used entry
CacheInsert(c, key, value) ==
    IF Len(c) >= maxsize
    THEN Append(Tail(c), [key |-> key, value |-> value])
    ELSE Append(c, [key |-> key, value |-> value])

\* history: triple becomes the most recently used of all triples
Touch(r, triple) == Append(SelectSeq(r, LAMBDA k : k # triple), triple)

\* history: how many envelopes the body has returned for triple
Computed(triple) ==
    IF triple \in DOMAIN computed THEN computed[triple].obj[2] ELSE 0

\* the current call's arguments
Triple == <<args.identifier, args.identifier_type, args.api_key>>

\* the sleep without the doubling of the delay
Sleep_ConstantDelay ==
    /\ sleeps' = Append(sleeps, retry_delay)
    /\ retry_delay' = retry_delay

\* the delay doubled before the sleep instead of after it
Sleep_DoubleBeforeSleep ==
    /\ sleeps' = Append(sleeps, retry_delay * 2)
    /\ retry_delay' = retry_delay * 2

Sleep ==
    /\ sleeps' = Append(sleeps, retry_delay)
    /\ retry_delay' = retry_delay * 2

NoSleep == UNCHANGED <<sleeps, retry_delay>>

\* the loop goes on with the next attempt
Continue ==
    /\ pc' = "loop"
    /\ attempt' = attempt + 1
    /\ UNCHANGED <<result, cache, recency, computed>>

\* the body of find_attraction_info ends: lru_cache stores what it returned
\* and lets an exception through; obj is the identity of the returned tuple
find_attraction_info_end(triple, res) ==
    IF res.kind = "raise"
    THEN /\ pc' = "raised"
         /\ result' = res
         /\ UNCHANGED <<cache, recency, computed>>
    ELSE LET value == res @@ ("obj" :> <<triple, Computed(triple) + 1>>)
         IN  /\ pc' = "returned"
             /\ result' = value
             /\ cache' = CacheInsert(cache, make_key(triple[1], triple[2], triple[3]), value)
             /\ recency' = Touch(recency, triple)
             /\ computed' = (triple :> value) @@ computed

\* lines 14-71: the call, up to the retry loop
find_attraction_info_call(identifier, identifier_type, api_key) ==
    LET key == make_key(identifier, identifier_type, api_key)
    IN  /\ pc # "loop"
        /\ op' = "find_attraction_info"
        /\ args' = [identifier |-> identifier, identifier_type |-> identifier_type,
                    api_key |-> api_key]
        /\ requests' = 0
        /\ sleeps' = <<>>
        /\ history' = <<>>
        /\ attempt' = 0
        /\ retry_delay' = 1
        /\ response' = Unbound
        /\ IF CacheHas(cache, key)
           THEN /\ pc' = "returned"
                /\ result' = cache[CacheIndex(cache, key)].value
                /\ cache' = CacheMoveToEnd(cache, key)
                /\ recency' = Touch(recency, <<identifier, identifier_type, api_key>>)
                /\ UNCHANGED computed
           ELSE IF ~ValidIdentifierType(identifier_type)
           THEN find_attraction_info_end(<<identifier, identifier_type, api_key>>,
                                         Raise("ValueError"))
           ELSE IF IsEmptyIdentifier(identifier)
           THEN find_attraction_info_end(<<identifier, identifier_type, api_key>>,
                    Return(EmptyDataFrame, <<"Identifier cannot be empty.">>))
           ELSE /\ pc' = "loop"
                /\ result' = NoResult
                /\ UNCHANGED <<cache, recency, computed>>

\* lines 82-86: except requests.exceptions.RequestException as e
find_attraction_info_except(e) ==
    IF attempt = max_retries_1 - 1
    THEN /\ NoSleep
         /\ attempt' = attempt
         /\ find_attraction_info_end(Triple,
                Return(EmptyDataFrame,
                       <<"Failed to fetch data after ", ToString(max_retries_1),
                         " attempts. Error: ", e>>))
    ELSE Sleep /\ Continue

\* lines 73-115: one iteration of the retry loop and, when the loop ends,
\* the code after it
find_attraction_info_attempt(outcome) ==
    /\ pc = "loop"
    /\ op = "find_attraction_info"
    /\ requests' = requests + 1
    /\ history' = Append(history, outcome)
    /\ UNCHANGED <<op, args>>
    /\ IF outcome.kind # "Response"
       THEN /\ UNCHANGED response
            /\ find_attraction_info_except(outcome.kind)
       ELSE /\ response' = outcome
            /\ IF outcome.status_code = 429
               THEN /\ Sleep
                    /\ IF attempt + 1 < max_retries_1
                       THEN Continue
                       ELSE /\ attempt' = attempt
                            /\ find_attraction_info_end(Triple,
                                   find_attraction_info_process(
                                       args.identifier, args.identifier_type, outcome))
               ELSE IF RaisesForStatus(outcome)
               THEN find_attraction_info_except(HTTPErrorStr(outcome))
               ELSE /\ NoSleep
                    /\ attempt' = attempt
                    /\ find_attraction_info_end(Triple,
                           find_attraction_info_process(
                               args.identifier, args.identifier_type, outcome))

(***************************************************************************)
(* Function 2: get_performer_events_1 and extract_event_info.              *)
(***************************************************************************)
\* the test of line 235 as an explicit not-None test
Truthy_NotNone(o) == o # None

\* truthiness of a value that is None or a number
Truthy(o) == o # None /\ o[1] # 0

\* list[0]: the first element; IndexError on an empty list
HasFirst(list) == Len(list) >= 1

\* event.get('_embedded', {}).get('venues', [{}])
VenuesOf(event) == GetOr(GetOr(event, "_embedded", EmptyDict), "venues", <<EmptyDict>>)

\* event.get('sales', {}).get('presale', [{}])
PresaleOf(event) == GetOr(GetOr(event, "sales", EmptyDict), "presale", <<EmptyDict>>)

\* the places of extract_event_info that index an empty list
extract_event_info_raises(event) ==
    \/ "priceRanges" \in DOMAIN event /\ ~HasFirst(event["priceRanges"])
    \/ ~HasFirst(VenuesOf(event))
    \/ ~HasFirst(PresaleOf(event))

\* lines 229-235; a float is written as its number of halves
PricesOf(event) ==
    LET prices == IF "priceRanges" \in DOMAIN event
                  THEN event["priceRanges"][1] ELSE EmptyDict
        min_price == Get(prices, "min")
        max_price == Get(prices, "max")
    IN  [min_price |-> min_price,
         max_price |-> max_price,
         avg_price |-> IF Truthy(min_price) /\ Truthy(max_price)
                       THEN Some([halves |-> min_price[1] + max_price[1]])
                       ELSE None]

\* lines 219-256, when no index fails
extract_event_info(event) ==
    LET venue == VenuesOf(event)[1]
        presale == PresaleOf(event)[1]
        start == GetOr(GetOr(event, "dates", EmptyDict), "start", EmptyDict)
        public == GetOr(GetOr(event, "sales", EmptyDict), "public", EmptyDict)
        p == PricesOf(event)
    IN  "Event Name" :> Get(event, "name")
        @@ "Event ID" :> Get(event, "id")
        @@ "Start Date" :> Get(start, "localDate")
        @@ "Start Time" :> Get(start, "localTime")
        @@ "Venue" :> Get(venue, "name")
        @@ "Venue ID" :> GetOr(venue, "id", "N/A")
        @@ "City" :> Get(GetOr(venue, "city", EmptyDict), "name")
        @@ "Country" :> Get(GetOr(venue, "country", EmptyDict), "name")
        @@ "publicsale_start" :> Get(public, "startDateTime")
        @@ "publicsale_end" :> Get(public, "endDateTime")
        @@ "presale_start" :> Get(presale, "startDateTime")
        @@ "presale_end" :> Get(presale, "endDateTime")
        @@ "Min Price" :> p.min_price
        @@ "Max Price" :> p.max_price
        @@ "Average Price" :> p.avg_price

\* response.json().get('_embedded', {}).get('events', [])
EventsOf(data) == GetOr(GetOr(data, "_embedded", EmptyDict), "events", <<>>)

\* the except clauses in the other order: except Exception catches all
get_performer_events_1_except_Swapped(exc, detail) ==
    Return(EmptyDataFrame, <<"Other error occurred: ", detail>>)

\* lines 212-215: except requests.HTTPError / except Exception
get_performer_events_1_except(exc, detail) ==
    IF exc = "HTTPError"
    THEN Return(EmptyDataFrame, <<"HTTP error occurred: ", detail>>)
    ELSE Return(EmptyDataFrame, <<"Other error occurred: ", detail>>)

\* the flattening without the test 'if not events_data' of lines 201-202
get_performer_events_1_process_NoEmptyCheck(r) ==
    IF ~r.decodable
    THEN get_performer_events_1_except("JSONDecodeError", "JSONDecodeError")
    ELSE LET events_data == EventsOf(r.data)
         IN  IF \E i \in DOMAIN events_data : extract_event_info_raises(events_data[i])
             THEN get_performer_events_1_except("IndexError", "list index out of range")
             ELSE Return([i \in DOMAIN events_data |-> extract_event_info(events_data[i])],
                         None)

\* lines 200-210: the flattening, inside the try
get_performer_events_1_process(r) ==
    IF ~r.decodable
    THEN get_performer_events_1_except("JSONDecodeError", "JSONDecodeError")
    ELSE LET events_data == EventsOf(r.data)
         IN  IF events_data = <<>>
             THEN Return(EmptyDataFrame, <<"No events found for this performer.">>)
             ELSE IF \E i \in DOMAIN events_data : extract_event_info_raises(events_data[i])
             THEN get_performer_events_1_except("IndexError", "list index out of range")
             ELSE Return([i \in DOMAIN events_data |-> extract_event_info(events_data[i])],
                         None)

\* a call of an operation without a cache ends
End(res) ==
    /\ pc' = IF res.kind = "raise" THEN "raised" ELSE "returned"
    /\ result' = res
    /\ attempt' = attempt
    /\ UNCHANGED <<cache, recency, computed>>

\* lines 182-185 and, when range(max_retries) is empty, line 217
get_performer_events_1_call(attraction_id, api_key, max_retries) ==
    /\ pc # "loop"
    /\ op' = "get_performer_events_1"
    /\ args' = [attraction_id |-> attraction_id, api_key |-> api_key,
                max_retries |-> max_retries]
    /\ requests' = 0
    /\ sleeps' = <<>>
    /\ history' = <<>>
    /\ attempt' = 0
    /\ retry_delay' = 1
    /\ response' = Unbound
    /\ UNCHANGED <<cache, recency, computed>>
    /\ IF max_retries <= 0
       THEN /\ pc' = "returned"
            /\ result' = Return(EmptyDataFrame, <<"Failed to fetch events after retries">>)
       ELSE /\ pc' = "loop"
            /\ result' = NoResult

\* lines 185-215: one iteration of the retry loop
get_performer_events_1_attempt(outcome) ==
    /\ pc = "loop"
    /\ op = "get_performer_events_1"
    /\ requests' = requests + 1
    /\ history' = Append(history, outcome)
    /\ UNCHANGED <<op, args>>
    /\ IF outcome.kind # "Response"
       THEN /\ UNCHANGED response
            /\ NoSleep
            /\ End(get_performer_events_1_except(outcome.kind, outcome.kind))
       ELSE /\ response' = outcome
            /\ IF outcome.status_code = 429
               THEN IF attempt < args.max_retries - 1
                    THEN Sleep /\ Continue
                    ELSE /\ NoSleep
                         /\ End(Return(EmptyDataFrame,
                                       <<"Rate limit exceeded, try again later.">>))
               ELSE IF RaisesForStatus(outcome)
               THEN /\ NoSleep
                    /\ End(get_performer_events_1_except("HTTPError", HTTPErrorStr(outcome)))
               ELSE /\ NoSleep
                    /\ End(get_performer_events_1_process(outcome))

(***************************************************************************)
(* Function 3: fetch_filtered_events.                                      *)
(***************************************************************************)
max_retries_3 == 5

\* lines 332-345, when no index fails
FilteredEventInfo(event) ==
    LET venue == VenuesOf(event)[1]
        dates == GetOr(event, "dates", EmptyDict)
        start == GetOr(dates, "start", EmptyDict)
        end == GetOr(dates, "end", EmptyDict)
        public == GetOr(GetOr(event, "sales", EmptyDict), "public", EmptyDict)
    IN  "ID" :> Get(event, "id")
        @@ "Venue ID" :> Get(venue, "id")
        @@ "Start DateTime" :> Get(start, "dateTime")
        @@ "End DateTime" :> Get(end, "dateTime")
        @@ "City" :> Get(GetOr(venue, "city", EmptyDict), "name")
        @@ "State Code" :> Get(GetOr(venue, "state", EmptyDict), "stateCode")
        @@ "Country Code" :> Get(GetOr(venue, "country", EmptyDict), "countryCode")
        @@ "Onsale Start DateTime" :> Get(public, "startDateTime")
        @@ "Onsale End DateTime" :> Get(public, "endDateTime")
        @@ "Local Start DateTime" :> Get(start, "localDate")
        @@ "Local End DateTime" :> Get(end, "localDate")
        @@ "Start End DateTime" :> Get(dates, "timezone")

\* lines 323-348: the code after the retry loop, outside any try
fetch_filtered_events_process(r) ==
    IF r.kind = "None" \/ r.status_code # 200
    THEN Return(EmptyDataFrame, <<"No successful response received from the API.">>)
    ELSE IF ~r.decodable
    THEN Raise("JSONDecodeError")
    ELSE LET events_data == EventsOf(r.data)
         IN  IF events_data = <<>>
             THEN Return(EmptyDataFrame, <<"No events found for the given criteria.">>)
             ELSE IF \E i \in DOMAIN events_data : ~HasFirst(VenuesOf(events_data[i]))
             THEN Raise("IndexError")
             ELSE Return([i \in DOMAIN events_data |-> FilteredEventInfo(events_data[i])],
                         None)

\* lines 292-304
fetch_filtered_events_call(api_key, city) ==
    /\ pc # "loop"
    /\ op' = "fetch_filtered_events"
    /\ args' = [api_key |-> api_key, start_date |-> None, end_date |-> None,
                city |-> city, state_code |-> None, country_code |-> None]
    /\ requests' = 0
    /\ sleeps' = <<>>
    /\ history' = <<>>
    /\ attempt' = 0
    /\ retry_delay' = 1
    /\ response' = NoneResponse
    /\ pc' = "loop"
    /\ result' = NoResult
    /\ UNCHANGED <<cache, recency, computed>>

\* lines 306-348: one iteration of the retry loop and, when the loop ends,
\* the code after it
fetch_filtered_events_attempt(outcome) ==
    /\ pc = "loop"
    /\ op = "fetch_filtered_events"
    /\ requests' = requests + 1
    /\ history' = Append(history, outcome)
    /\ UNCHANGED <<op, args>>
    /\ IF outcome.kind # "Response"
       THEN /\ UNCHANGED response
            /\ IF attempt = max_retries_3 - 1
               THEN /\ NoSleep
                    /\ End(Return(EmptyDataFrame,
                                  <<"Failed to fetch data after ", ToString(max_retries_3),
                                    " attempts. Error: ", outcome.kind>>))
               ELSE Sleep /\ Continue
       ELSE /\ response' = outcome
            /\ IF RaisesForStatus(outcome)
               THEN IF ResponseBool(outcome) /\ outcome.status_code = 429
                    THEN /\ Sleep
                         /\ IF attempt + 1 < max_retries_3
                            THEN Continue
                            ELSE End(fetch_filtered_events_process(outcome))
                    ELSE /\ NoSleep
                         /\ End(Return(EmptyDataFrame,
                                       <<"HTTP error occurred: ", HTTPErrorStr(outcome)>>))
               ELSE /\ NoSleep
                    /\ End(fetch_filtered_events_process(outcome))

(***************************************************************************)
(* The environment: arguments and outcomes of requests.get.                *)
(***************************************************************************)
Identifiers == { <<>>, <<"T">>, <<"S", " ", "T">>, <<"s">> }

IdentifierTypes == { "name", "id", "Name", "invalid_type" }

AttractionObjects ==
    { [name |-> <<"T", " ", "S">>, id |-> "1",
       upcomingEvents |-> [ticketmaster |-> 3, _total |-> 4]],
      [name |-> <<"T", "S">>, id |-> "2"],
      [name |-> <<"T", " ", "S", " ", "W">>, id |-> "3"],
      [id |-> "4"] }

AttractionLists ==
    UNION { [1..n -> AttractionObjects] : n \in 0..MaxAttractions }

\* bodies of the keyword search and of the lookup by id
AttractionPayloads ==
    { EmptyDict, [_embedded |-> EmptyDict] }
    \cup { [_embedded |-> [attractions |-> l]] : l \in AttractionLists }
    \cup { a \in AttractionObjects : TRUE }
    \cup { [name |-> <<"T", " ", "S">>] }

VenueFull ==
    [name |-> "Megaland", id |-> "V1", city |-> [name |-> "Landgraaf"],
     state |-> [stateCode |-> "LI"],
     country |-> [name |-> "Netherlands", countryCode |-> "NL"]]

EventFull ==
    [name |-> "Pinkpop", id |-> "E1",
     dates |-> [start |-> [localDate |-> "2024-06-23", localTime |-> "12:00:00",
                           dateTime |-> "2024-06-23T10:00:00Z"],
                end |-> [localDate |-> "2024-06-24", dateTime |-> "2024-06-24T10:00:00Z"],
                timezone |-> "Europe/Amsterdam"],
     sales |-> [public |-> [startDateTime |-> "2023-12-09T09:00:00Z",
                            endDateTime |-> "2024-06-23T15:00:00Z"],
                presale |-> <<[startDateTime |-> "2023-12-01T09:00:00Z",
                               endDateTime |-> "2023-12-08T09:00:00Z"]>>],
     _embedded |-> [venues |-> <<VenueFull>>],
     priceRanges |-> <<[min |-> 50, max |-> 150]>>]

\* event objects: complete, and with nested paths missing at each depth
EventObjects ==
    { EventFull,
      EmptyDict,
      [name |-> "E2", dates |-> EmptyDict, sales |-> EmptyDict, _embedded |-> EmptyDict],
      [name |-> "E3", _embedded |-> [venues |-> <<EmptyDict>>],
       sales |-> [presale |-> <<EmptyDict>>], priceRanges |-> <<EmptyDict>>],
      [name |-> "E4", _embedded |-> [venues |-> <<>>]],
      [name |-> "E5", sales |-> [presale |-> <<>>]],
      [name |-> "E6", priceRanges |-> <<>>],
      [name |-> "E7", priceRanges |-> <<[min |-> 0, max |-> 150]>>],
      [name |-> "E8", priceRanges |-> <<[min |-> 50]>>],
      [name |-> "E9", priceRanges |-> <<[min |-> 25, max |-> 50],
                                        [min |-> 1, max |-> 2]>>] }

EventLists == UNION { [1..n -> EventObjects] : n \in 0..MaxEvents }

EventPayloads ==
    { EmptyDict, [malformed_data |-> "data"], [_embedded |-> EmptyDict] }
    \cup { [_embedded |-> [events |-> l]] : l \in EventLists }

MaxRetriesChoices == { 0, 1, 2, 5 }

StatusCodes2xx == { 200, 201 }

StatusCodesRetry == { 429, 500 }

OutcomesOver(payloads) ==
    { ConnectionError }
    \cup { Response(s, FALSE, EmptyDict) : s \in StatusCodesRetry \cup StatusCodes2xx }
    \cup { Response(s, TRUE, d) : s \in StatusCodes2xx, d \in payloads }

(***************************************************************************)
(* One call of one operation by a fresh process.                           *)
(***************************************************************************)
Init ==
    /\ op = "none"
    /\ args = EmptyDict
    /\ pc = "idle"
    /\ attempt = 0
    /\ retry_delay = 1
    /\ response = Unbound
    /\ requests = 0
    /\ sleeps = <<>>
    /\ history = <<>>
    /\ result = NoResult
    /\ cache = <<>>
    /\ recency = <<>>
    /\ computed = EmptyDict

CallFindAttractionInfo ==
    /\ pc = "idle"
    /\ \E identifier \in Identifiers, identifier_type \in IdentifierTypes :
           find_attraction_info_call(identifier, identifier_type, "key")

AttemptFindAttractionInfo ==
    \E outcome \in OutcomesOver(AttractionPayloads) :
        find_attraction_info_attempt(outcome)

CallGetPerformerEvents ==
    /\ pc = "idle"
    /\ \E max_retries \in MaxRetriesChoices :
           get_performer_events_1_call("K8vZ9175Tr0", "key", max_retries)

AttemptGetPerformerEvents ==
    \E outcome \in OutcomesOver(EventPayloads) :
        get_performer_events_1_attempt(outcome)

CallFetchFilteredEvents ==
    /\ pc = "idle"
    /\ fetch_filtered_events_call("key", Some("New York"))

AttemptFetchFilteredEvents ==
    \E outcome \in OutcomesOver(EventPayloads) :
        fetch_filtered_events_attempt(outcome)

Next ==
    \/ CallFindAttractionInfo
    \/ AttemptFindAttractionInfo
    \/ CallGetPerformerEvents
    \/ AttemptGetPerformerEvents
    \/ CallFetchFilteredEvents
    \/ AttemptFetchFilteredEvents

Spec == Init /\ [][Next]_vars

(***************************************************************************)
(* A process that calls find_attraction_info again and again: with one     *)
(* triple that goes to the network, with an invalid identifier_type, and   *)
(* with fresh triples (an api_key not used before, the empty identifier),  *)
(* enough of them to fill the cache; the last fresh triple may be called   *)
(* again.                                                                  *)
(***************************************************************************)
NumFreshKeys == 101

\* how many of the fresh triples have been used
FreshUsed == Cardinality({ i \in DOMAIN recency : recency[i][1] = <<>> })

CacheOutcomes ==
    { ConnectionError,
      Response(429, FALSE, EmptyDict),
      Response(200, TRUE, [_embedded |-> [attractions |-> <<[name |-> <<"T", " ", "S">>,
                                                             id |-> "1"]>>]]),
      Response(200, TRUE, EmptyDict),
      Response(200, TRUE, [_embedded |-> [attractions |-> <<[id |-> "4"]>>]]) }

CallAgain == find_attraction_info_call(<<"T">>, "name", "key")

CallInvalid == find_attraction_info_call(<<"T">>, "invalid_type", "key")

CallFresh ==
    /\ FreshUsed < NumFreshKeys
    /\ find_attraction_info_call(<<>>, "name", ToString(FreshUsed + 1))

\* the fresh triple used last, called again
CallLastFresh ==
    /\ FreshUsed >= 1
    /\ find_attraction_info_call(<<>>, "name", ToString(FreshUsed))

AttemptCached ==
    \E outcome \in CacheOutcomes : find_attraction_info_attempt(outcome)

NextCache ==
    \/ CallAgain
    \/ CallInvalid
    \/ CallFresh
    \/ CallLastFresh
    \/ AttemptCached

SpecCache == Init /\ [][NextCache]_vars

(***************************************************************************)
(* Vocabulary of the claims.                                               *)
(***************************************************************************)
Done == pc \in {"returned", "raised"}

Last(seq) == seq[Len(seq)]

Is429(o) == o.kind = "Response" /\ o.status_code = 429

Is2xx(o) == o.kind = "Response" /\ o.status_code >= 200 /\ o.status_code < 300

\* a transport-level failure, or a non-2xx status other than 429
IsFailure(o) ==
    \/ o.kind = "ConnectionError"
    \/ o.kind = "Response" /\ ~Is2xx(o) /\ ~Is429(o)

\* the number of attempts the current call may make
MaxRetries ==
    CASE op = "find_attraction_info" -> max_retries_1
      [] op = "get_performer_events_1" -> args.max_retries
      [] op = "fetch_filtered_events" -> max_retries_3
      [] OTHER -> 0

\* a 200 response whose payload holds what the current call asks for
IsValid200(o) ==
    /\ o.kind = "Response" /\ o.status_code = 200 /\ o.decodable
    /\ IF op = "find_attraction_info"
       THEN IF args.identifier_type = "name"
            THEN /\ "_embedded" \in DOMAIN o.data
                 /\ "attractions" \in DOMAIN o.data["_embedded"]
                 /\ LET l == o.data["_embedded"]["attractions"]
                    IN  /\ l # <<>>
                        /\ \A i \in DOMAIN l :
                               /\ "name" \in DOMAIN l[i]
                               /\ l[i]["name"] = <<"T", " ", "S">>
            ELSE "name" \in DOMAIN o.data /\ "id" \in DOMAIN o.data
       ELSE /\ "_embedded" \in DOMAIN o.data
            /\ "events" \in DOMAIN o.data["_embedded"]
            /\ LET l == o.data["_embedded"]["events"]
               IN  l # <<>> /\ \A i \in DOMAIN l : l[i] = EventFull

\* C1: in each of the three operations (get_performer_events_1 with room
\* for a retry), when the first request is answered with 429 and the second
\* with a valid 200, the call makes exactly two requests, sleeps once for 1
\* and returns a non-empty table with error None.
C1_RetryOnceThenSuccess ==
    ( /\ Done
      /\ Len(history) >= 1
      /\ Is429(history[1])
      /\ Len(history) >= 2 => IsValid200(history[2])
      /\ MaxRetries >= 2 )
    => /\ requests = 2
       /\ sleeps = <<1>>
       /\ result.kind = "return"
       /\ result.table # EmptyDataFrame
       /\ result.error = None

\* C2: in each operation an attempt that is not the last and ends in a
\* non-2xx status other than 429 or in a transport failure is followed by a
\* sleep of the current delay, the doubling of the delay and another
\* request; such a failure ends the call, with an error envelope, only on
\* the last attempt.
C2_FailureIsRetried ==
    [][ ( /\ pc = "loop"
          /\ requests' = requests + 1
          /\ IsFailure(Last(history')) )
        => IF attempt < MaxRetries - 1
           THEN /\ pc' = "loop"
                /\ sleeps' = Append(sleeps, retry_delay)
                /\ retry_delay' = 2 * retry_delay
           ELSE /\ pc' = "returned"
                /\ result'.table = EmptyDataFrame
                /\ result'.error # None ]_vars

\* C3: find_attraction_info checks its arguments before any request: an
\* identifier_type outside {'name', 'id'} raises ValueError, whatever the
\* identifier; an empty identifier with a valid identifier_type returns
\* (empty table, "Identifier cannot be empty."); no request is made.
C3_ValidationBeforeNetwork ==
    op = "find_attraction_info" =>
        /\ args.identifier_type \notin {"name", "id"} =>
               /\ pc = "raised"
               /\ result = Raise("ValueError")
               /\ requests = 0
        /\ (args.identifier_type \in {"name", "id"} /\ args.identifier = <<>>) =>
               /\ pc = "returned"
               /\ result.table = EmptyDataFrame
               /\ result.error = <<"Identifier cannot be empty.">>
               /\ requests = 0

\* an invalid identifier_type with an empty identifier has raised
C3_Witness ==
    /\ op = "find_attraction_info"
    /\ args.identifier_type = "invalid_type"
    /\ args.identifier = <<>>
    /\ pc = "raised"
    /\ requests = 0

\* the lower-cased whitespace tokens of s: the maximal runs without a space
TokenSet(s) ==
    { SubSeq(Lower(s), ij[1], ij[2]) :
        ij \in { p \in (1..Len(s)) \X (1..Len(s)) :
                   /\ p[1] <= p[2]
                   /\ \A k \in p[1]..p[2] : s[k] # " "
                   /\ (p[1] = 1 \/ s[p[1] - 1] = " ")
                   /\ (p[2] = Len(s) \/ s[p[2] + 1] = " ") } }

\* the candidates of a 200 response to a search by name, none if there is
\* no list
CandidatesOf(r) ==
    IF /\ r.decodable
       /\ "_embedded" \in DOMAIN r.data
       /\ "attractions" \in DOMAIN r.data["_embedded"]
    THEN Some(r.data["_embedded"]["attractions"])
    ELSE None

\* C5: for a search by name answered with 200, the table holds exactly the
\* candidates, in response order, all of whose query tokens are whole tokens
\* of the candidate's name (lower-cased, whitespace-split); error is None
\* when a candidate matches, "No matching attractions found with the name."
\* when the list exists and none matches, "No matching attractions found."
\* when the list is absent.
C5_NameMatching ==
    ( /\ op = "find_attraction_info"
      /\ args.identifier_type = "name"
      /\ Done
      /\ history # <<>>
      /\ Last(history).kind = "Response"
      /\ Last(history).status_code = 200
      /\ Last(history).decodable )
    => LET list == CandidatesOf(Last(history))
           expected ==
               IF list = None THEN <<>>
               ELSE SelectSeq(list[1],
                        LAMBDA a : /\ "name" \in DOMAIN a
                                   /\ TokenSet(args.identifier) \subseteq TokenSet(a["name"]))
       IN  /\ result.kind = "return"
           /\ Len(result.table) = Len(expected)
           /\ \A i \in DOMAIN expected :
                  /\ result.table[i]["name"] = expected[i]["name"]
                  /\ result.table[i]["ID"] = expected[i]["id"]
           /\ result.error =
                  IF expected # <<>> THEN None
                  ELSE IF list # None
                  THEN <<"No matching attractions found with the name.">>
                  ELSE <<"No matching attractions found.">>

\* C6: whatever the responses, every call ends by returning an envelope;
\* the only call that ends with a raised exception is find_attraction_info
\* with an identifier_type outside {'name', 'id'}.
C6_OnlyInvalidArgumentRaises ==
    /\ pc = "loop" => attempt < MaxRetries
    /\ pc = "raised" =>
           /\ op = "find_attraction_info"
           /\ args.identifier_type \notin {"name", "id"}
           /\ result = Raise("ValueError")

AllConnectionErrors ==
    \A i \in DOMAIN history : history[i].kind = "ConnectionError"

\* the first n delays of the doubling schedule that starts at 1
Backoff(n) == [i \in 1..n |-> 2 ^ (i - 1)]

FetchFailureMessages ==
    { "Error fetching data: Status code ",
      "No successful response received from the API.",
      "Failed to fetch data after ",
      "Failed to fetch events after retries",
      "HTTP error occurred: ",
      "Rate limit exceeded, try again later." }

\* C8: in every operation the first response with a 2xx status is the last
\* request of the call, and the envelope returned is the flattening of that
\* response, never a fetch-failure error.
C8_First2xxIsFlattened ==
    /\ \A i \in DOMAIN history :
           Is2xx(history[i]) => (i = Len(history) /\ Done)
    /\ ( /\ Done
         /\ history # <<>>
         /\ Is2xx(Last(history))
         /\ result.kind = "return" )
       => \/ result.error = None
          \/ result.error[1] \notin FetchFailureMessages

AllRateLimited ==
    /\ history # <<>>
    /\ \A i \in DOMAIN history : Is429(history[i])

\* the last response of get_performer_events_1 makes raise_for_status raise
EndsInHTTPError == Last(history).kind = "Response" /\ IsFailure(Last(history))

\* the last attempt of get_performer_events_1 raises another exception
EndsInOtherException ==
    \/ Last(history).kind = "ConnectionError"
    \/ /\ Is2xx(Last(history))
       /\ \/ ~Last(history).decodable
          \/ \E i \in DOMAIN EventsOf(Last(history).data) :
                 extract_event_info_raises(EventsOf(Last(history).data)[i])

\* C9 as stated: HTTP failures yield "HTTP error occurred: ...", other
\* exceptions "Other error occurred: ...", and max_retries attempts all
\* answered 429 yield "Failed to fetch events after retries."
C9_Original ==
    (op = "get_performer_events_1" /\ Done /\ history # <<>>) =>
        /\ result.kind = "return"
        /\ EndsInHTTPError =>
               /\ result.table = EmptyDataFrame
               /\ Len(result.error) = 2
               /\ result.error[1] = "HTTP error occurred: "
        /\ EndsInOtherException =>
               /\ result.table = EmptyDataFrame
               /\ Len(result.error) = 2
               /\ result.error[1] = "Other error occurred: "
        /\ (AllRateLimited /\ requests = args.max_retries) =>
               /\ result.table = EmptyDataFrame
               /\ result.error = <<"Failed to fetch events after retries.">>

\* C9 amended: HTTP failures yield "HTTP error occurred: ...", other
\* exceptions "Other error occurred: ..."; max_retries >= 1 attempts all
\* answered 429 yield "Rate limit exceeded, try again later."; "Failed to
\* fetch events after retries" is returned exactly when max_retries <= 0,
\* so that no attempt is made.
C9_Amended ==
    (op = "get_performer_events_1" /\ Done) =>
        /\ result.kind = "return"
        /\ (history # <<>> /\ EndsInHTTPError) =>
               /\ result.table = EmptyDataFrame
               /\ Len(result.error) = 2
               /\ result.error[1] = "HTTP error occurred: "
        /\ (history # <<>> /\ EndsInOtherException) =>
               /\ result.table = EmptyDataFrame
               /\ Len(result.error) = 2
               /\ result.error[1] = "Other error occurred: "
        /\ (AllRateLimited /\ requests = args.max_retries) =>
               /\ result.table = EmptyDataFrame
               /\ result.error = <<"Rate limit exceeded, try again later.">>
        /\ result.error = <<"Failed to fetch events after retries">>
               <=> (args.max_retries <= 0 /\ requests = 0)

\* the default five attempts were all answered 429, and the call returned
C9_Witness ==
    /\ op = "get_performer_events_1"
    /\ pc = "returned"
    /\ AllRateLimited
    /\ args.max_retries = 5
    /\ requests = 5
    /\ sleeps = <<1, 2, 4, 8>>
    /\ result.error = <<"Rate limit exceeded, try again later.">>

\* C10: in get_performer_events_1, for every event of a 200 response, a
\* nested path missing at any depth (no dates, no _embedded, venues absent
\* or empty, presale absent or empty, priceRanges absent or empty) leaves
\* only the fields of that record None: every event yields a record and the
\* call returns the table with error None.
C10_MissingPathsDegrade ==
    ( /\ op = "get_performer_events_1"
      /\ Done
      /\ history # <<>>
      /\ Last(history).kind = "Response"
      /\ Last(history).status_code = 200
      /\ Last(history).decodable
      /\ EventsOf(Last(history).data) # <<>> )
    => LET events == EventsOf(Last(history).data)
       IN  /\ result.kind = "return"
           /\ result.error = None
           /\ Len(result.table) = Len(events)
           /\ \A i \in DOMAIN events :
                  /\ result.table[i]["Event Name"] = Get(events[i], "name")
                  /\ result.table[i]["Event ID"] = Get(events[i], "id")

\* what the claim says of the prices of one event: Min Price and Max Price
\* are the min and max of the first priceRanges element, None without
\* priceRanges; the average is the half of their sum when both are present
\* and not 0, else None
ClaimedPrices(event) ==
    LET first == IF "priceRanges" \in DOMAIN event
                 THEN event["priceRanges"][1] ELSE EmptyDict
        has_min == "min" \in DOMAIN first
        has_max == "max" \in DOMAIN first
    IN  [min |-> IF has_min THEN <<first["min"]>> ELSE None,
         max |-> IF has_max THEN <<first["max"]>> ELSE None,
         avg |-> IF has_min /\ has_max /\ first["min"] # 0 /\ first["max"] # 0
                 THEN <<[halves |-> first["min"] + first["max"]]>>
                 ELSE None]

\* C11: every record of a table returned by get_performer_events_1 takes
\* Min Price and Max Price from the first priceRanges element of its event
\* (both None when priceRanges is absent), and Average Price is
\* (min + max) / 2 exactly when both are present and not 0, else None; min
\* 50 and max 150 give the average 100.
C11_Prices ==
    ( /\ op = "get_performer_events_1"
      /\ pc = "returned"
      /\ result.error = None )
    => LET events == EventsOf(Last(history).data)
       IN  /\ Len(result.table) = Len(events)
           /\ \A i \in DOMAIN events :
                  /\ result.table[i]["Min Price"] = ClaimedPrices(events[i]).min
                  /\ result.table[i]["Max Price"] = ClaimedPrices(events[i]).max
                  /\ result.table[i]["Average Price"] = ClaimedPrices(events[i]).avg
                  /\ (result.table[i]["Min Price"] = <<50>>
                      /\ result.table[i]["Max Price"] = <<150>>)
                     => result.table[i]["Average Price"] = <<[halves |-> 2 * 100]>>

\* a table of two records was returned: prices 50 and 150 with the average
\* 100, and prices 0 and 150 without an average
C11_Witness ==
    /\ op = "get_performer_events_1"
    /\ pc = "returned"
    /\ result.error = None
    /\ Len(result.table) = 2
    /\ result.table[1]["Min Price"] = <<50>>
    /\ result.table[1]["Max Price"] = <<150>>
    /\ result.table[1]["Average Price"] = <<[halves |-> 200]>>
    /\ result.table[2]["Min Price"] = <<0>>
    /\ result.table[2]["Max Price"] = <<150>>
    /\ result.table[2]["Average Price"] = None

\* the default schedule of the delays
DefaultSchedule == <<1, 2, 4, 8, 16>>

\* C12: in every call of every operation, whatever the mixture of 429
\* responses, error statuses and transport failures: at most max_retries
\* requests are made; the i-th sleep lasts 2^(i-1), so that with the default
\* of 5 the sleeps are a prefix of 1, 2, 4, 8, 16; the delay is never reset
\* (it is 2^n after n sleeps) and no sleep is skipped (every request after
\* the first follows a sleep of its own).
C12_BackoffSchedule ==
    op # "none" =>
        /\ requests <= MaxRetries
        /\ sleeps = Backoff(Len(sleeps))
        /\ MaxRetries <= 5 =>
               /\ Len(sleeps) <= 5
               /\ sleeps = SubSeq(DefaultSchedule, 1, Len(sleeps))
        /\ retry_delay = 2 ^ Len(sleeps)
        /\ pc = "loop" => Len(sleeps) = requests
        /\ (Done /\ requests >= 1) => Len(sleeps) \in {requests - 1, requests}

\* a call of find_attraction_info that met a 429, a connection error and a
\* 500 made its five requests and slept 1, 2, 4, 8, 16
C12_Witness ==
    /\ op = "find_attraction_info"
    /\ Done
    /\ requests = 5
    /\ sleeps = <<1, 2, 4, 8, 16>>
    /\ \E i \in DOMAIN history : history[i].kind = "ConnectionError"
    /\ \E i \in DOMAIN history : Is429(history[i])
    /\ \E i \in DOMAIN history :
           history[i].kind = "Response" /\ history[i].status_code = 500

\* C13: every envelope returned by any of the three operations has the
\* error None if and only if its table has at least one row: no return
\* yields an empty table with the error None, nor a table with rows
\* together with an error.
C13_ErrorIffEmptyTable ==
    pc = "returned" => (result.error = None <=> Len(result.table) >= 1)

\* fetch_filtered_events returned a table of two rows with the error None
C13_Witness ==
    /\ op = "fetch_filtered_events"
    /\ pc = "returned"
    /\ Len(result.table) = 2
    /\ result.error = None

\* triple is among the n most recently used distinct triples of r
AmongMostRecent(triple, r, n) ==
    \E i \in DOMAIN r : r[i] = triple /\ Len(r) - i < n

IsErrorEnvelope(v) == v.kind = "return" /\ v.error # None

\* C14: the cache of find_attraction_info stores error envelopes too: when
\* the last call with the same triple returned an error envelope and the
\* triple is still among the 100 most recently used, the call makes no
\* request and returns that very envelope, whatever the API would answer
\* now; and a call leaves no cache entry for its triple only when it raised
\* the ValueError of an invalid identifier_type.
C14_ErrorEnvelopesAreCached ==
    [][ pc' \in {"returned", "raised"} =>
          LET triple == <<args'.identifier, args'.identifier_type, args'.api_key>>
          IN  /\ ( /\ AmongMostRecent(triple, recency, 100)
                   /\ IsErrorEnvelope(computed[triple]) )
                 => /\ requests' = 0
                    /\ result' = computed[triple]
                    /\ UNCHANGED computed
              /\ ~CacheHas(cache', make_key(triple[1], triple[2], triple[3]))
                     <=> result' = Raise("ValueError") ]_vars

====
